---- MODULE Spec2Model ----
(***************************************************************************)
(* Expense tracker (src/app.py): the CSV ledger, the requests that write   *)
(* it (add_expense, delete_expense, clear_all_expenses,                    *)
(* generate_mock_data) and the forecasting pipeline that reads it          *)
(* (prepare_data_for_forecast, get_forecast).                              *)
(*                                                                         *)
(* Representation.                                                         *)
(*   - A date text "YYYY-MM-DD" is the tuple <<y, m, d>>; the empty text   *)
(*     is <<>> and a text of another shape (e.g. "2024-01") is a tuple of  *)
(*     another length.  A pandas Timestamp is the number of days since     *)
(*     Monday 2024-01-01, held as the 1-tuple <<n>>, and NaT is <<>>, so a *)
(*     date column may mix Timestamps and texts as the code's does.        *)
(*   - A float amount is an option: NaN is <<>>, the finite value of c     *)
(*     cents is <<c>>.  Infinite amounts are outside the modelled domain.  *)
(*     The CSV text of a float reads back as the same float.               *)
(*   - A forecast value of the fitted model is an integer number of mills  *)
(*     (1/1000), so that rounding to 2 decimals is a real operation.       *)
(*   - Each request is a process; its atomic steps are delimited by its    *)
(*     accesses to the CSV file (one read_csv or one to_csv per step).     *)
(***************************************************************************)
EXTENDS Integers, Sequences, FiniteSets, TLC

\* ----------------------------------------------------------------- bounds
MaxWeeks == 9
MaxIndex == 0
MockWeeks == 9
MaxDailyDay == 9
MaxDailyRows == 2

\* ------------------------------------------------------ program constants
MinWeeks == 8
ForecastSteps == 4

VALID_CATEGORIES == {"Food", "Transport", "Entertainment", "Health", "Bills", "Shopping", "Other"}

VARIABLES
    file,               \* rows of expenses.csv, in file order
    fileExists,         \* os.path.exists(FILE_NAME)
    FORECAST_AVAILABLE, \* the statsmodels import succeeded
    op,                 \* the handler each request runs ("" before it starts)
    pc,                 \* position of each request
    df,                 \* each request's DataFrame local (read_data's result)
    new_row,            \* add_expense's new_row
    data,               \* get_forecast's weekly series
    forecast_values,    \* get_forecast's model_fit.forecast(4)
    history_df,         \* get_forecast's second read_data()
    resp,               \* the response a finished request returned
    daily               \* result of prepare_data_for_forecast('daily')

vars == <<file, fileExists, FORECAST_AVAILABLE, op, pc, df, new_row, data,
          forecast_values, history_df, resp, daily>>

\* two requests in flight at once
Reqs == {1, 2}

\* ------------------------------------------------------------ option type
NaN == <<>>
Num(c) == <<c>>
IsNaN(a) == a = <<>>
NaT == <<>>

\* ------------------------------------------------------------------ dates
IsLeap(y) == (y % 4 = 0 /\ y % 100 # 0) \/ y % 400 = 0

DaysInMonth(y, m) ==
    IF m = 2 THEN (IF IsLeap(y) THEN 29 ELSE 28)
    ELSE IF m \in {4, 6, 9, 11} THEN 30 ELSE 31

DaysInYear(y) == IF IsLeap(y) THEN 366 ELSE 365

RECURSIVE DaysBeforeMonth(_, _)
DaysBeforeMonth(y, m) ==
    IF m <= 1 THEN 0 ELSE DaysBeforeMonth(y, m - 1) + DaysInMonth(y, m - 1)

\* datetime.strptime(text, "%Y-%m-%d") succeeds
ValidDateText(t) ==
    /\ Len(t) = 3
    /\ t[1] \in 1..9999
    /\ t[2] \in 1..12
    /\ t[3] \in 1..DaysInMonth(t[1], t[2])

\* days from 2024-01-01 to January 1st of year y
RECURSIVE DaysBeforeYear(_)
DaysBeforeYear(y) ==
    IF y = 2024 THEN 0
    ELSE IF y > 2024 THEN DaysBeforeYear(y - 1) + DaysInYear(y - 1)
    ELSE DaysBeforeYear(y + 1) - DaysInYear(y)

\* pd.to_datetime(text, errors='coerce'): the day number of a valid date
\* within the Timestamp range (years 1678..2261 are wholly inside it), NaT
\* for any other text
ToDatetime(t) ==
    IF ValidDateText(t) /\ t[1] \in 1678..2261
    THEN <<DaysBeforeYear(t[1]) + DaysBeforeMonth(t[1], t[2]) + t[3] - 1>>
    ELSE NaT

RECURSIVE YearOfDay(_, _)
YearOfDay(n, y) ==
    IF n - DaysBeforeYear(y) < DaysInYear(y) THEN y ELSE YearOfDay(n, y + 1)

\* Timestamp.strftime('%Y-%m-%d'), for day numbers n >= 0
Strftime(n) ==
    LET y == YearOfDay(n, 2024)
        doy == n - DaysBeforeYear(y)
        m == CHOOSE k \in 1..12 :
                 /\ DaysBeforeMonth(y, k) <= doy
                 /\ doy < DaysBeforeMonth(y, k) + DaysInMonth(y, k)
    IN  <<y, m, doy - DaysBeforeMonth(y, m) + 1>>

\* Timestamp.weekday(): Monday = 0 (2024-01-01 is a Monday)
Weekday(n) == n % 7

\* weeks anchored so that they start on Sunday
WeekStartSunday(n) == n - ((n + 1) % 7)

\* dt.to_period('W') followed by to_timestamp(): the Monday starting the
\* Monday-to-Sunday week of day n
WeekStart(n) == n - Weekday(n)

\* ----------------------------------------------------------------- ledger
Row(d, c, a, s) == [date |-> d, category |-> c, amount |-> a, description |-> s]

\* one cell of a date column through pd.to_datetime(errors='coerce'): a
\* Timestamp is kept, a text is parsed
CellToDatetime(cell) == IF Len(cell) = 1 THEN cell ELSE ToDatetime(cell)

\* df['date'] = pd.to_datetime(df['date'], errors='coerce')
ColumnToDatetime(rows) ==
    [i \in 1..Len(rows) |-> [rows[i] EXCEPT !.date = CellToDatetime(@)]]

\* df.dropna(subset=['date'])
DropNaT(rows) == SelectSeq(rows, LAMBDA x : x.date # NaT)

\* insertion of row x after every row dated no later (a stable sort step)
RECURSIVE InsertByDate(_, _)
InsertByDate(sorted, x) ==
    IF sorted = <<>> THEN <<x>>
    ELSE IF sorted[Len(sorted)].date[1] <= x.date[1] THEN Append(sorted, x)
    ELSE Append(InsertByDate(SubSeq(sorted, 1, Len(sorted) - 1), x), sorted[Len(sorted)])

\* df.sort_values(by="date")
RECURSIVE SortByDate(_)
SortByDate(rows) ==
    IF rows = <<>> THEN <<>>
    ELSE InsertByDate(SortByDate(SubSeq(rows, 1, Len(rows) - 1)), rows[Len(rows)])

\* to_csv(..., date_format="%Y-%m-%d"): the rows as the file holds them
ToCsv(rows) ==
    [i \in 1..Len(rows) |-> [rows[i] EXCEPT !.date = Strftime(@[1])]]

\* save_data(df): the new content of expenses.csv
SaveData(rows) == ToCsv(SortByDate(DropNaT(ColumnToDatetime(rows))))

\* read_data(): the DataFrame of the current file
ReadData ==
    IF ~fileExists THEN <<>>
    ELSE DropNaT(ColumnToDatetime(file))

\* ------------------------------------------------------------- responses
NoResp ==
    [status |-> 0, error |-> "", result |-> "", keys |-> {},
     current_weeks |-> 0, required_weeks |-> 0, zero_percentage |-> 0,
     total_forecast |-> 0, pie |-> <<>>, timeline |-> <<>>,
     data_points_used |-> 0]

ErrorResp(code, msg, ks) ==
    [NoResp EXCEPT !.status = code, !.error = msg, !.keys = ks]

StatusResp(code, res, ks) ==
    [NoResp EXCEPT !.status = code, !.result = res, !.keys = ks]

\* ------------------------------------------------------------ add_expense
\* float(text) for the amount texts a request may carry; a text outside the
\* table raises ValueError
FloatTable ==
    [t \in {"0", "-1", "nan", "12.5"} |->
        CASE t = "0" -> Num(0)
          [] t = "-1" -> Num(-100)
          [] t = "nan" -> NaN
          [] t = "12.5" -> Num(1250)]

FloatRaises(t) == t \notin DOMAIN FloatTable

\* amount <= 0 on floats: every comparison with NaN is False
FloatLeqZero(a) == ~IsNaN(a) /\ a[1] <= 0

\* JSON bodies of POST /api/expenses.  An absent key and a falsy value take
\* the same branch (line 114); both are the empty text here.
DateInputs == {<<>>, <<2024, 2, 30>>, <<1, 1, 1>>, <<2024, 1, 7>>}
CategoryInputs == {"", "Pets", "Food"}
AmountInputs == {"", "abc", "0", "-1", "nan", "12.5"}
NoBody == [date |-> <<>>, category |-> "", amount |-> "", empty |-> TRUE]
Bodies ==
    {NoBody} \cup
    {[date |-> d, category |-> c, amount |-> a, empty |-> FALSE] :
        d \in DateInputs, c \in CategoryInputs, a \in AmountInputs}

\* the validation of add_expense: the 400 response, or NoResp when the
\* request passes
Validate(body) ==
    IF body.empty
    THEN ErrorResp(400, "No data provided", {"error"})
    ELSE IF body.date = <<>> \/ body.category = "" \/ body.amount = ""
    THEN ErrorResp(400, "Missing fields", {"error"})
    ELSE IF FloatRaises(body.amount)
    THEN ErrorResp(400, "Amount must be a number", {"error"})
    ELSE IF FloatLeqZero(FloatTable[body.amount])
    THEN ErrorResp(400, "Amount must be positive", {"error"})
    ELSE IF ~ValidDateText(body.date)
    THEN ErrorResp(400, "Date must be in YYYY-MM-DD format", {"error"})
    ELSE IF body.category \notin VALID_CATEGORIES
    THEN ErrorResp(400, "Invalid category", {"error", "valid_categories"})
    ELSE NoResp

\* the description a client sends: its own tag
Description(r) == ToString(r)

\* lines 108-143: validation, new_row, df = read_data()
AddExpense(r) ==
    /\ pc[r] = "idle"
    /\ op' = [op EXCEPT ![r] = "add_expense"]
    /\ \E body \in Bodies :
         LET bad == Validate(body) IN
         IF bad.status # 0
         THEN /\ resp' = [resp EXCEPT ![r] = bad]
              /\ pc' = [pc EXCEPT ![r] = "done"]
              /\ UNCHANGED <<new_row, df>>
         ELSE /\ new_row' = [new_row EXCEPT ![r] =
                     Row(body.date, body.category, FloatTable[body.amount],
                         Description(r))]
              /\ df' = [df EXCEPT ![r] = ReadData]
              /\ pc' = [pc EXCEPT ![r] = "add_save"]
              /\ UNCHANGED resp
    /\ UNCHANGED <<file, fileExists, FORECAST_AVAILABLE, data, forecast_values,
                   history_df, daily>>

\* lines 144-147: pd.concat, save_data(df), 201
AddExpenseSave(r) ==
    /\ pc[r] = "add_save"
    /\ file' = SaveData(Append(df[r], new_row[r]))
    /\ fileExists' = TRUE
    /\ resp' = [resp EXCEPT ![r] = StatusResp(201, "created", {"status", "expense"})]
    /\ pc' = [pc EXCEPT ![r] = "done"]
    /\ UNCHANGED <<op, FORECAST_AVAILABLE, df, new_row, data, forecast_values,
                   history_df, daily>>

\* --------------------------------------------------------- delete_expense
\* df.drop(index).reset_index(drop=True), index counted from 0
DropIndex(rows, index) ==
    [i \in 1..(Len(rows) - 1) |-> IF i <= index THEN rows[i] ELSE rows[i + 1]]

\* lines 151-157: df = read_data(), the bounds check, the drop
DeleteExpense(r) ==
    /\ pc[r] = "idle"
    /\ op' = [op EXCEPT ![r] = "delete_expense"]
    /\ \E index \in 0..MaxIndex :
         LET frame == ReadData IN
         IF index < 0 \/ index >= Len(frame)
         THEN /\ resp' = [resp EXCEPT ![r] = ErrorResp(404, "Index out of bounds", {"error"})]
              /\ pc' = [pc EXCEPT ![r] = "done"]
              /\ UNCHANGED df
         ELSE /\ df' = [df EXCEPT ![r] = DropIndex(frame, index)]
              /\ pc' = [pc EXCEPT ![r] = "delete_save"]
              /\ UNCHANGED resp
    /\ UNCHANGED <<file, fileExists, FORECAST_AVAILABLE, new_row, data,
                   forecast_values, history_df, daily>>

\* lines 158-159: save_data(df), 200
DeleteExpenseSave(r) ==
    /\ pc[r] = "delete_save"
    /\ file' = SaveData(df[r])
    /\ fileExists' = TRUE
    /\ resp' = [resp EXCEPT ![r] = StatusResp(200, "deleted", {"status"})]
    /\ pc' = [pc EXCEPT ![r] = "done"]
    /\ UNCHANGED <<op, FORECAST_AVAILABLE, df, new_row, data, forecast_values,
                   history_df, daily>>

\* ----------------------------------------------------- clear_all_expenses
ClearAllExpenses(r) ==
    /\ pc[r] = "idle"
    /\ op' = [op EXCEPT ![r] = "clear_all_expenses"]
    /\ \E confirm \in BOOLEAN :
         IF ~confirm
         THEN /\ resp' = [resp EXCEPT ![r] =
                     ErrorResp(400, "Confirmation required", {"error", "hint"})]
              /\ UNCHANGED <<file, fileExists>>
         ELSE /\ file' = SaveData(<<>>)
              /\ fileExists' = TRUE
              /\ resp' = [resp EXCEPT ![r] =
                     StatusResp(200, "success", {"status", "message"})]
    /\ pc' = [pc EXCEPT ![r] = "done"]
    /\ UNCHANGED <<FORECAST_AVAILABLE, df, new_row, data, forecast_values,
                   history_df, daily>>

\* ----------------------------------------------------- generate_mock_data
\* The records of one run.  The code draws 500 records over the 181 days
\* from base_date; here a run draws k records, one in each of the first k
\* weeks of a window of MockWeeks weeks starting at day 0, on varying
\* weekdays, with categories from VALID_CATEGORIES[:-1] and amounts
\* round(base_amount * trend_factor * multiplier, 2) >= 10; k is 1 (all
\* draws in one week), MockWeeks - 2 or MockWeeks (every week drawn).
MockCategories == <<"Food", "Transport", "Entertainment", "Health", "Bills", "Shopping">>

MockRecord(i) ==
    Row(Strftime(7 * (i - 1) + ((3 * i) % 7)),
        MockCategories[((i - 1) % Len(MockCategories)) + 1],
        Num(1000 + 1525 * (i % 4)),
        "Cafe")

MockData == {[i \in 1..k |-> MockRecord(k + 1 - i)] : k \in {1, MockWeeks - 2, MockWeeks}}

GenerateMockData(r) ==
    /\ pc[r] = "idle"
    /\ op' = [op EXCEPT ![r] = "generate_mock_data"]
    /\ \E new_data \in MockData :
         file' = SaveData(new_data)
    /\ fileExists' = TRUE
    /\ resp' = [resp EXCEPT ![r] =
           StatusResp(200, "success", {"status", "message", "features"})]
    /\ pc' = [pc EXCEPT ![r] = "done"]
    /\ UNCHANGED <<FORECAST_AVAILABLE, df, new_row, data, forecast_values,
                   history_df, daily>>

\* ------------------------------------------- prepare_data_for_forecast
\* pd.to_numeric(df["amount"], errors='coerce').fillna(0), one cell, in cents
Coerce(a) == IF IsNaN(a) THEN 0 ELSE a[1]

RECURSIVE SumAmounts(_)
SumAmounts(rows) ==
    IF rows = <<>> THEN 0
    ELSE Coerce(rows[Len(rows)].amount) + SumAmounts(SubSeq(rows, 1, Len(rows) - 1))

Min(S) == CHOOSE x \in S : \A y \in S : x <= y

\* the keys of a groupby, in ascending order
RECURSIVE Ascending(_)
Ascending(S) ==
    IF S = {} THEN <<>> ELSE <<Min(S)>> \o Ascending(S \ {Min(S)})

\* method='weekly' (lines 59-71): df.groupby('week')['amount'].sum() with
\* the index turned to week-start Timestamps; the empty Series for the
\* empty frame
WeeklyExpense(rows) ==
    LET weeks == Ascending({WeekStart(rows[i].date[1]) : i \in 1..Len(rows)}) IN
    [k \in 1..Len(weeks) |->
        [week |-> weeks[k],
         amount |-> SumAmounts(SelectSeq(rows,
                        LAMBDA x : WeekStart(x.date[1]) = weeks[k]))]]

\* exact fractions <<numerator, denominator>> in lowest terms
RECURSIVE Gcd(_, _)
Gcd(a, b) == IF b = 0 THEN a ELSE Gcd(b, a % b)

Abs(x) == IF x < 0 THEN -x ELSE x

Frac(n, d) ==
    LET g == Gcd(Abs(n), d) IN <<n \div g, d \div g>>

FracAdd(a, b) == Frac(a[1] * b[2] + b[1] * a[2], a[2] * b[2])

RECURSIVE FracSum(_)
FracSum(xs) ==
    IF xs = <<>> THEN <<0, 1>>
    ELSE FracAdd(xs[Len(xs)], FracSum(SubSeq(xs, 1, Len(xs) - 1)))

\* Series.mean() / a rolling window's mean: NaN cells are skipped, and the
\* mean of no cell is NaN
MeanSkipNaN(cells) ==
    LET present == SelectSeq(cells, LAMBDA v : v # NaN)
        total == FracSum(present)
    IN  IF present = <<>> THEN NaN
        ELSE Frac(total[1], total[2] * Len(present))

MaxOf(a, b) == IF a >= b THEN a ELSE b

MinOf(a, b) == IF a <= b THEN a ELSE b

\* the window of center=False: cells i-6..i
RollingWindowTrailing(cells, i) == SubSeq(cells, MaxOf(1, i - 6), i)

\* daily_expense.rolling(window=7, min_periods=1, center=True).mean(): the
\* window of cell i is cells i-3..i+3, clipped at both ends
RollingWindow(cells, i) == SubSeq(cells, MaxOf(1, i - 3), MinOf(Len(cells), i + 3))

RollingMean(cells) == [i \in 1..Len(cells) |-> MeanSkipNaN(RollingWindow(cells, i))]

\* Series.fillna(other): other is aligned cell by cell
FillNa(cells, other) ==
    [i \in 1..Len(cells) |-> IF cells[i] = NaN THEN other[i] ELSE cells[i]]

\* method='daily' (lines 59-65, 73-90), amounts in cents as fractions
DailyExpense(rows) ==
    IF rows = <<>> THEN <<>>
    ELSE
    LET days == {rows[i].date[1] : i \in 1..Len(rows)}
        first == Min(days)
        last == CHOOSE x \in days : \A y \in days : y <= x
        \* groupby("date").sum() reindexed over date_range, fill_value=0
        reindexed ==
            [i \in 1..(last - first + 1) |->
                SumAmounts(SelectSeq(rows, LAMBDA x : x.date[1] = first + i - 1))]
        \* replace(0, np.nan)
        replaced ==
            [i \in 1..Len(reindexed) |->
                IF reindexed[i] = 0 THEN NaN ELSE <<reindexed[i], 1>>]
        rolled == FillNa(replaced, RollingMean(replaced))
        mean == MeanSkipNaN(rolled)
        filled == FillNa(rolled, [i \in 1..Len(rolled) |-> mean])
    IN  [i \in 1..Len(filled) |-> [day |-> first + i - 1, value |-> filled[i]]]

\* ------------------------------------------------------------ get_forecast
\* round(x, ndigits) of the exact quotient num / den (den > 0) to the
\* nearest integer unit, ties to even
RoundHalfEven(num, den) ==
    LET q == num \div den
        rem == num % den
    IN  IF 2 * rem < den THEN q
        ELSE IF 2 * rem > den THEN q + 1
        ELSE IF q % 2 = 0 THEN q ELSE q + 1

\* len(data) < 8
Insufficient(series) == Len(series) < MinWeeks

\* (data == 0).sum()
ZeroCount(series) == Cardinality({k \in 1..Len(series) : series[k].amount = 0})

\* the quality check left out
PoorQualityNever(series) == FALSE

\* zero_pct > 0.5, with zero_pct = (data == 0).sum() / len(data)
PoorQuality(series) == 2 * ZeroCount(series) > Len(series)

\* the percentage truncated instead of rounded
ZeroPercentageTruncated(series) == (1000 * ZeroCount(series)) \div Len(series)

\* round(zero_pct * 100, 1), in tenths of a percent
ZeroPercentage(series) == RoundHalfEven(1000 * ZeroCount(series), Len(series))

\* lines 274-297: the availability check, prepare_data_for_forecast
\* (method='weekly'), the sufficiency check, the quality check
GetForecast(r) ==
    /\ pc[r] = "idle"
    /\ op' = [op EXCEPT ![r] = "get_forecast"]
    /\ IF ~FORECAST_AVAILABLE
       THEN /\ resp' = [resp EXCEPT ![r] =
                   ErrorResp(503, "Forecasting not available", {"error", "message"})]
            /\ pc' = [pc EXCEPT ![r] = "done"]
            /\ UNCHANGED <<df, data>>
       ELSE LET frame == ReadData
                series == WeeklyExpense(frame)
            IN  /\ df' = [df EXCEPT ![r] = frame]
                /\ data' = [data EXCEPT ![r] = series]
                /\ IF Insufficient(series)
                   THEN /\ resp' = [resp EXCEPT ![r] =
                               [ErrorResp(400, "Insufficient data",
                                   {"error", "message", "current_weeks", "required_weeks"})
                                EXCEPT !.current_weeks = Len(series),
                                       !.required_weeks = MinWeeks]]
                        /\ pc' = [pc EXCEPT ![r] = "done"]
                   ELSE IF PoorQuality(series)
                   THEN /\ resp' = [resp EXCEPT ![r] =
                               [ErrorResp(400, "Data quality issue",
                                   {"error", "message", "zero_percentage"})
                                EXCEPT !.zero_percentage = ZeroPercentage(series)]]
                        /\ pc' = [pc EXCEPT ![r] = "done"]
                   ELSE /\ pc' = [pc EXCEPT ![r] = "fit"]
                        /\ UNCHANGED resp
    /\ UNCHANGED <<file, fileExists, FORECAST_AVAILABLE, new_row, forecast_values,
                   history_df, daily>>

\* model_fit.forecast(4) of the statsmodels model: the library decides the
\* values; in mills
FitResults ==
    {<<12345, 23455, 8005, 15>>, <<1005, 1000, 1000, 1000>>, <<-1505, 250, 125, 0>>}

\* lines 300-311 with the handlers of lines 350-363: the fit and the
\* forecast either raise ValueError, raise another exception, or return
ModelFit(r) ==
    /\ pc[r] = "fit"
    /\ \/ /\ resp' = [resp EXCEPT ![r] =
                 ErrorResp(400, "Model fitting failed", {"error", "message", "details"})]
          /\ pc' = [pc EXCEPT ![r] = "done"]
          /\ UNCHANGED forecast_values
       \/ /\ resp' = [resp EXCEPT ![r] =
                 ErrorResp(500, "Forecasting failed", {"error", "message"})]
          /\ pc' = [pc EXCEPT ![r] = "done"]
          /\ UNCHANGED forecast_values
       \/ /\ \E values \in FitResults :
                 forecast_values' = [forecast_values EXCEPT ![r] = values]
          /\ pc' = [pc EXCEPT ![r] = "project"]
          /\ UNCHANGED resp
    /\ UNCHANGED <<op, file, fileExists, FORECAST_AVAILABLE, df, new_row, data,
                   history_df, daily>>

RECURSIVE SumSeq(_)
SumSeq(xs) == IF xs = <<>> THEN 0 ELSE xs[Len(xs)] + SumSeq(SubSeq(xs, 1, Len(xs) - 1))

\* total_predicted = round(float(forecast_values.sum()), 2), in cents
TotalPredicted(values) == RoundHalfEven(SumSeq(values), 10)

\* history_df.groupby('category')['amount'].sum(), in cents
CatTotals(rows) ==
    [c \in {rows[i].category : i \in 1..Len(rows)} |->
        SumAmounts(SelectSeq(rows, LAMBDA x : x.category = c))]

\* an entry truncated instead of rounded
PieEntryTruncated(cat_total, total_history, total_predicted) ==
    (cat_total * total_predicted) \div total_history

\* one entry of (category_shares * total_predicted).round(2), in cents
PieEntry(cat_total, total_history, total_predicted) ==
    RoundHalfEven(cat_total * total_predicted, total_history)

\* lines 319-326: the pie of the forecast
ForecastPie(rows, total_predicted) ==
    LET cat_totals == CatTotals(rows)
        total_history == SumAmounts(rows)
    IN  IF total_history > 0
        THEN [c \in DOMAIN cat_totals |->
                 PieEntry(cat_totals[c], total_history, total_predicted)]
        ELSE <<>>

\* pd.date_range(start, periods, freq='W'): weekly on Sundays, from the
\* first Sunday on or after start
DateRangeW(start, periods) ==
    [i \in 1..periods |-> start + ((6 - Weekday(start)) % 7) + 7 * (i - 1)]

\* start=data.index[-1] + pd.Timedelta(weeks=1)
ForecastDates(series) == DateRangeW(series[Len(series)].week + 7, ForecastSteps)

\* lines 328-339: zip(forecast_dates, forecast_values)
Timeline(series, values) ==
    LET forecast_dates == ForecastDates(series) IN
    [i \in 1..MinOf(Len(forecast_dates), Len(values)) |->
        [date |-> Strftime(forecast_dates[i]),
         amount |-> RoundHalfEven(values[i], 10)]]

\* the coerced history written back with save_data
ProjectForecastSaving(r) ==
    /\ pc[r] = "project"
    /\ LET history == ReadData
           total_predicted == TotalPredicted(forecast_values[r])
       IN  /\ history_df' = [history_df EXCEPT ![r] = history]
           /\ file' = SaveData([i \in 1..Len(history) |->
                         [history[i] EXCEPT !.amount = Num(Coerce(@))]])
           /\ fileExists' = TRUE
           /\ resp' = [resp EXCEPT ![r] =
                  [NoResp EXCEPT
                      !.status = 200,
                      !.keys = {"total_forecast", "forecast_period", "pie",
                                "timeline", "model", "data_points_used"},
                      !.total_forecast = total_predicted,
                      !.pie = ForecastPie(history, total_predicted),
                      !.timeline = Timeline(data[r], forecast_values[r]),
                      !.data_points_used = Len(data[r])]]
    /\ pc' = [pc EXCEPT ![r] = "done"]
    /\ UNCHANGED <<op, FORECAST_AVAILABLE, df, new_row, data, forecast_values,
                   daily>>

\* lines 313-348: the total, the second read_data(), the pie, the timeline
\* and the result
ProjectForecast(r) ==
    /\ pc[r] = "project"
    /\ LET history == ReadData
           total_predicted == TotalPredicted(forecast_values[r])
       IN  /\ history_df' = [history_df EXCEPT ![r] = history]
           /\ resp' = [resp EXCEPT ![r] =
                  [NoResp EXCEPT
                      !.status = 200,
                      !.keys = {"total_forecast", "forecast_period", "pie",
                                "timeline", "model", "data_points_used"},
                      !.total_forecast = total_predicted,
                      !.pie = ForecastPie(history, total_predicted),
                      !.timeline = Timeline(data[r], forecast_values[r]),
                      !.data_points_used = Len(data[r])]]
    /\ pc' = [pc EXCEPT ![r] = "done"]
    /\ UNCHANGED <<op, file, fileExists, FORECAST_AVAILABLE, df, new_row, data,
                   forecast_values, daily>>

\* ---------------------------------------------------------- specification
NoRequests ==
    /\ op = [r \in Reqs |-> ""]
    /\ pc = [r \in Reqs |-> "idle"]
    /\ df = [r \in Reqs |-> <<>>]
    /\ new_row = [r \in Reqs |-> Row(<<>>, "", NaN, "")]
    /\ data = [r \in Reqs |-> <<>>]
    /\ forecast_values = [r \in Reqs |-> <<>>]
    /\ history_df = [r \in Reqs |-> <<>>]
    /\ resp = [r \in Reqs |-> NoResp]
    /\ daily = [called |-> FALSE, series |-> <<>>]

\* the server starts with no expenses.csv
Init ==
    /\ file = <<>>
    /\ fileExists = FALSE
    /\ FORECAST_AVAILABLE \in BOOLEAN
    /\ NoRequests

Next ==
    \E r \in Reqs :
        \/ AddExpense(r)
        \/ AddExpenseSave(r)
        \/ DeleteExpense(r)
        \/ DeleteExpenseSave(r)
        \/ ClearAllExpenses(r)
        \/ GenerateMockData(r)
        \/ GetForecast(r)
        \/ ModelFit(r)
        \/ ProjectForecast(r)

Spec == Init /\ [][Next]_vars

\* ------------------------------------------ ledgers to forecast from
\* A stored ledger of n weeks, of which the first z hold only rows whose
\* amount field is empty (NaN): rows add_expense stores for the amount
\* text "nan".  Shape "plain" has one row per consecutive week, "gaps" one
\* row every second week, "double" a Monday row and a Sunday row per week.
\* z is 0, half of n rounded down, one more than that, or n.
SeedWeek(i, shape) == IF shape = "gaps" THEN 2 * (i - 1) ELSE i - 1

SeedAmount(i, z, cents) == IF i <= z THEN NaN ELSE Num(cents)

SeedRows(i, z, shape) ==
    IF shape = "double"
    THEN <<Row(Strftime(7 * SeedWeek(i, shape)),
               IF i % 2 = 0 THEN "Food" ELSE "Transport",
               SeedAmount(i, z, 1000 + 1525 * (i % 3)), "seed"),
           Row(Strftime(7 * SeedWeek(i, shape) + 6), "Bills",
               SeedAmount(i, z, 333), "seed")>>
    ELSE <<Row(Strftime(7 * SeedWeek(i, shape) + ((3 * i) % 7)),
               IF i % 2 = 0 THEN "Food" ELSE "Transport",
               SeedAmount(i, z, 1000 + 1525 * (i % 3)), "seed")>>

RECURSIVE SeedLedger(_, _, _)
SeedLedger(n, z, shape) ==
    IF n = 0 THEN <<>> ELSE SeedLedger(n - 1, z, shape) \o SeedRows(n, z, shape)

SeedZeros(n, k) ==
    IF k = 0 THEN 0 ELSE IF k = 3 THEN n ELSE MinOf(n, (n \div 2) + k - 1)

SeedLedgers ==
    {SeedLedger(n, SeedZeros(n, k), shape) :
        n \in 0..MaxWeeks, k \in 0..3, shape \in {"plain", "gaps", "double"}}

\* the server starts on an expenses.csv left by earlier requests
InitStored ==
    /\ file \in SeedLedgers
    /\ fileExists = TRUE
    /\ FORECAST_AVAILABLE \in BOOLEAN
    /\ NoRequests

SpecStored == InitStored /\ [][Next]_vars

\* ------------------------------------ the daily series as a function
\* ledgers of at most MaxDailyRows days with transactions, within days
\* 0..MaxDailyDay; a day holds one row without amount, one row, or two rows
DayAmounts == {<<NaN>>, <<Num(100)>>, <<Num(100), Num(250)>>}

RECURSIVE DailyLedger(_, _)
DailyLedger(days, amounts) ==
    IF days = {} THEN <<>>
    ELSE LET last == CHOOSE x \in days : \A y \in days : y <= x IN
         DailyLedger(days \ {last}, amounts) \o
         [k \in 1..Len(amounts[last]) |->
             Row(Strftime(last), "Food", amounts[last][k], "seed")]

DailyLedgers ==
    UNION {{DailyLedger(days, amounts) : amounts \in [days -> DayAmounts]} :
           days \in {D \in SUBSET (0..MaxDailyDay) : Cardinality(D) <= MaxDailyRows}}

InitDaily ==
    /\ file \in DailyLedgers
    /\ fileExists = TRUE
    /\ FORECAST_AVAILABLE = TRUE
    /\ NoRequests

\* a call of prepare_data_for_forecast(method='daily')
PrepareDaily ==
    /\ ~daily.called
    /\ daily' = [called |-> TRUE, series |-> DailyExpense(ReadData)]
    /\ UNCHANGED <<file, fileExists, FORECAST_AVAILABLE, op, pc, df, new_row,
                   data, forecast_values, history_df, resp>>

SpecDaily == InitDaily /\ [][PrepareDaily]_vars

\* ================================================================ claims
ForecastRequests == {r \in Reqs : op[r] = "get_forecast"}

\* the number of distinct Monday-to-Sunday weeks holding a row (day 0 is a
\* Monday)
DistinctWeeks(rows) == Cardinality({rows[i].date[1] \div 7 : i \in 1..Len(rows)})

FitAttempted(r) ==
    \/ pc[r] \in {"fit", "project"}
    \/ resp[r].status = 200
    \/ resp[r].error \in {"Model fitting failed", "Forecasting failed"}

\* C1: with forecasting available, a request that read a ledger of fewer
\* than 8 distinct weeks (the empty ledger included) has returned
\* insufficient_data with current_weeks = the number of distinct weeks and
\* required_weeks = 8, and has attempted no fit.
C1_InsufficientData ==
    \A r \in ForecastRequests :
        (FORECAST_AVAILABLE /\ DistinctWeeks(df[r]) < 8) =>
            /\ pc[r] = "done"
            /\ resp[r].status = 400
            /\ resp[r].error = "Insufficient data"
            /\ resp[r].current_weeks = DistinctWeeks(df[r])
            /\ resp[r].required_weeks = 8
            /\ ~FitAttempted(r)
            /\ forecast_values[r] = <<>>

\* a request answered insufficient_data for a ledger with several rows in
\* one week
C1_Witness ==
    \E r \in ForecastRequests :
        /\ resp[r].error = "Insufficient data"
        /\ resp[r].current_weeks > 0
        /\ Len(df[r]) > resp[r].current_weeks

TimelineDay(r, i) == ToDatetime(resp[r].timeline[i].date)[1]

\* C2: a successful forecast has a timeline of exactly 4 points, 7 days
\* apart, the first one 7 days after the last week-start of the weekly
\* series, which is a Monday.
C2_TimelineStart ==
    \A r \in ForecastRequests :
        resp[r].status = 200 =>
            /\ Len(resp[r].timeline) = 4
            /\ \A i \in 1..3 : TimelineDay(r, i + 1) = TimelineDay(r, i) + 7
            /\ data[r][Len(data[r])].week % 7 = 0
            /\ TimelineDay(r, 1) = data[r][Len(data[r])].week + 7

ForecastErrors ==
    {"Forecasting not available", "Insufficient data", "Data quality issue",
     "Model fitting failed", "Forecasting failed"}

ZeroWeeks(series) == {k \in 1..Len(series) : series[k].amount = 0}

\* C3: a finished get_forecast has exactly one outcome (one of the five
\* errors, or the complete result); the checks run availability, then
\* sufficiency, then quality; the fit is attempted only when all three
\* pass; no error outcome carries total_forecast, timeline or pie.
C3_OneOutcomeInOrder ==
    \A r \in ForecastRequests :
        /\ pc[r] # "done" => resp[r] = NoResp
        /\ pc[r] = "done" =>
            \/ /\ resp[r].status = 200
               /\ resp[r].error = ""
               /\ resp[r].keys = {"total_forecast", "forecast_period", "pie",
                                  "timeline", "model", "data_points_used"}
            \/ /\ resp[r].status \in {400, 500, 503}
               /\ resp[r].error \in ForecastErrors
               /\ resp[r].keys \cap {"total_forecast", "timeline", "pie"} = {}
               /\ resp[r].total_forecast = 0
               /\ resp[r].timeline = <<>>
               /\ resp[r].pie = <<>>
        /\ (pc[r] = "done" /\ ~FORECAST_AVAILABLE) =>
               resp[r].error = "Forecasting not available"
        /\ resp[r].error = "Forecasting not available" => ~FORECAST_AVAILABLE
        /\ (pc[r] = "done" /\ FORECAST_AVAILABLE /\ Len(data[r]) < 8) =>
               resp[r].error = "Insufficient data"
        /\ resp[r].error = "Insufficient data" =>
               FORECAST_AVAILABLE /\ Len(data[r]) < 8
        /\ resp[r].error = "Data quality issue" =>
               /\ FORECAST_AVAILABLE
               /\ Len(data[r]) >= 8
               /\ 2 * Cardinality(ZeroWeeks(data[r])) > Len(data[r])
        /\ FitAttempted(r) =>
               /\ FORECAST_AVAILABLE
               /\ Len(data[r]) >= 8
               /\ 2 * Cardinality(ZeroWeeks(data[r])) <= Len(data[r])

\* a fit that raised ValueError, answered as fitting_failed
C3_Witness ==
    \E r \in ForecastRequests :
        /\ pc[r] = "done"
        /\ resp[r].error = "Model fitting failed"
        /\ Cardinality(ZeroWeeks(data[r])) > 0

\* C4: a weekly series of at least 8 points with more than 50% zero points
\* is answered poor_data_quality with zero_percentage = zeros / points x
\* 100 to the nearest tenth; with 50% or fewer zero points it never is.
C4_PoorDataQuality ==
    \A r \in ForecastRequests :
        Len(data[r]) >= 8 =>
            LET z == Cardinality(ZeroWeeks(data[r]))
                n == Len(data[r])
            IN  /\ 2 * z > n =>
                    /\ pc[r] = "done"
                    /\ resp[r].status = 400
                    /\ resp[r].error = "Data quality issue"
                    /\ 2 * Abs(resp[r].zero_percentage * n - 1000 * z) <= n
                /\ 2 * z <= n => resp[r].error # "Data quality issue"

\* 5 zero weeks of 9: 55.6 percent
C4_Witness ==
    \E r \in ForecastRequests :
        /\ resp[r].error = "Data quality issue"
        /\ Len(data[r]) = 9
        /\ resp[r].zero_percentage = 556

\* C5: within one get_forecast the weekly series and the history of the
\* pie come from the same ledger snapshot, whatever other requests do
\* meanwhile; a request that passed the sufficiency check computes a
\* history total > 0 and returns a non-empty pie.
C5_SameSnapshot ==
    \A r \in ForecastRequests :
        resp[r].status = 200 =>
            /\ history_df[r] = df[r]
            /\ SumAmounts(history_df[r]) > 0
            /\ resp[r].pie # <<>>

\* C6: every stored transaction has amount > 0, a valid calendar date and
\* a category of VALID_CATEGORIES, in every ledger reached from the empty
\* one by add_expense, delete_expense, clear_all_expenses and
\* generate_mock_data.
C6_StoredTransactionsValid ==
    \A i \in 1..Len(file) :
        /\ ~IsNaN(file[i].amount)
        /\ file[i].amount[1] > 0
        /\ ValidDateText(file[i].date)
        /\ file[i].category \in VALID_CATEGORIES

\* C7: no step of a get_forecast request changes the stored ledger.
C7_ForecastReadsOnly ==
    [][\A r \in Reqs :
          (GetForecast(r) \/ ModelFit(r) \/ ProjectForecast(r)) =>
              (file' = file /\ fileExists' = fileExists)]_vars

\* a get_forecast that ran to a complete result over rows without amount
C7_Witness ==
    \E r \in ForecastRequests :
        /\ resp[r].status = 200
        /\ \E i \in 1..Len(history_df[r]) : IsNaN(history_df[r][i].amount)
        /\ file # <<>>

RECURSIVE SumPie(_, _)
SumPie(pie, cats) ==
    IF cats = {} THEN 0
    ELSE LET c == CHOOSE x \in cats : TRUE IN pie[c] + SumPie(pie, cats \ {c})

Categories(rows) == {rows[i].category : i \in 1..Len(rows)}

CategoryTotal(rows, c) == SumAmounts(SelectSeq(rows, LAMBDA x : x.category = c))

DaySum(rows, d) == SumAmounts(SelectSeq(rows, LAMBDA x : x.date[1] = d))

FirstDay(rows) == Min({rows[i].date[1] : i \in 1..Len(rows)})

LastDay(rows) == -Min({-rows[i].date[1] : i \in 1..Len(rows)})

\* the days of the centered 7-day window of day d that hold a non-zero sum
ObservedAround(rows, d) ==
    {e \in (d - 3)..(d + 3) :
        FirstDay(rows) <= e /\ e <= LastDay(rows) /\ DaySum(rows, e) # 0}

RECURSIVE SumOver(_, _)
SumOver(rows, days) ==
    IF days = {} THEN 0
    ELSE LET e == CHOOSE x \in days : TRUE IN
         DaySum(rows, e) + SumOver(rows, days \ {e})

\* the value of day d once the rolling pass has run
AfterRollingPass(rows, d) ==
    IF DaySum(rows, d) # 0 THEN <<DaySum(rows, d), 1>>
    ELSE IF ObservedAround(rows, d) # {}
    THEN Frac(SumOver(rows, ObservedAround(rows, d)),
              Cardinality(ObservedAround(rows, d)))
    ELSE NaN

RECURSIVE FracSumOver(_, _)
FracSumOver(rows, days) ==
    IF days = {} THEN <<0, 1>>
    ELSE LET e == CHOOSE x \in days : TRUE IN
         FracAdd(AfterRollingPass(rows, e), FracSumOver(rows, days \ {e}))

\* the mean of the series after the rolling pass (NaN when no day has a
\* value)
MeanAfterRollingPass(rows) ==
    LET valued == {d \in FirstDay(rows)..LastDay(rows) :
                      AfterRollingPass(rows, d) # NaN}
        total == FracSumOver(rows, valued)
    IN  IF valued = {} THEN NaN
        ELSE Frac(total[1], total[2] * Cardinality(valued))

\* C9: for a non-empty ledger the daily series is indexed by every
\* calendar day from the earliest to the latest transaction date, once and
\* in order; no entry is a raw zero; every day without a non-zero sum holds
\* the mean of the non-zero sums within 3 days of it or, when there is
\* none, the mean of the series after the rolling pass.
C9_DailyGapFilling ==
    (daily.called /\ ReadData # <<>>) =>
        LET rows == ReadData
            series == daily.series
        IN  /\ Len(series) = LastDay(rows) - FirstDay(rows) + 1
            /\ \A i \in 1..Len(series) :
                   /\ series[i].day = FirstDay(rows) + i - 1
                   /\ series[i].value # <<0, 1>>
                   /\ DaySum(rows, series[i].day) = 0 =>
                          series[i].value =
                              IF ObservedAround(rows, series[i].day) # {}
                              THEN AfterRollingPass(rows, series[i].day)
                              ELSE MeanAfterRollingPass(rows)

\* transactions on the first and the tenth day: the days in the middle
\* have no observed day in their window and hold the mean of the series
C9_Witness ==
    /\ daily.called
    /\ Len(daily.series) = 10
    /\ \E i \in 1..Len(daily.series) :
           /\ DaySum(ReadData, daily.series[i].day) = 0
           /\ ObservedAround(ReadData, daily.series[i].day) = {}
           /\ daily.series[i].value # NaN
    /\ \E i \in 1..Len(daily.series) :
           /\ DaySum(ReadData, daily.series[i].day) = 0
           /\ ObservedAround(ReadData, daily.series[i].day) # {}

\* C10: when every request has completed, none was a delete_expense,
\* clear_all_expenses or generate_mock_data, and every add_expense carried
\* a date pandas can hold, the expense of every add_expense answered 201 is
\* in the stored ledger.
C10_NoAcknowledgedExpenseLost ==
    ( /\ \A r \in Reqs : pc[r] \in {"idle", "done"}
      /\ \A r \in Reqs : op[r] \in {"", "add_expense", "get_forecast"}
      /\ \A r \in Reqs : resp[r].status = 201 => ToDatetime(new_row[r].date) # NaT ) =>
        \A r \in Reqs :
            (op[r] = "add_expense" /\ resp[r].status = 201) =>
                \E i \in 1..Len(file) : file[i] = new_row[r]

====
